---- MODULE Spec2Model ----
(***************************************************************************)
(* A model of subaligner's Trainer (src/subaligner/trainer.py): the        *)
(* training orchestrator Trainer.train, the extraction coordinator         *)
(* Trainer.__extract_data_and_label_from_avs with its thread pool, the     *)
(* per-sample task Trainer.__extract_in_multithreads, and the attribute    *)
(* protocol of a constructed Trainer object.                               *)
(*                                                                         *)
(* Python's None is the empty sequence <<>> and a present value v is the   *)
(* one-element sequence <<v>>, so that every optional value is comparable. *)
(***************************************************************************)
EXTENDS Integers, Sequences, FiniteSets, TLC

(***************************************************************************)
(* Bounds of the model.                                                    *)
(***************************************************************************)
\* the longest list of samples handed to train
MaxN == 2
\* the largest number of processing units mp.cpu_count() reports
MaxCpu == 4
\* the largest value of the MAX_WORKERS environment override
MaxOverride == 1
\* frames of one feature matrix, and features of one frame
Frames == 1
FeatDim == 2
\* the number of values an attribute of the Trainer is set to
MaxValue == 3

VARIABLES
    \* ---- the Trainer object ----
    attrs,               \* the instance dictionary: attribute name -> value
    attrResult,          \* how the last setattr/delattr ended ("none": none yet)
    \* ---- the arguments of the train call and the disk it runs on ----
    av_file_paths,       \* None or <<list of paths>>
    subtitle_file_paths, \* None or <<list of paths>>
    resume,              \* the resume argument
    dumpFile,            \* training_dump_dir/training_dump.hdf5
    savedModel,          \* model_dir/model.hdf5 with weights_dir/weights.hdf5
    combined,            \* model_dir/combined.hdf5
    \* ---- Trainer.train ----
    pc,                  \* the position of the train call
    branch,              \* the branches of the if at line 76 that were entered
    error,               \* the exception that left train ([type, site]), if any
    network,             \* the local variable network
    train_data,          \* the local train_data of train (fresh extraction)
    labels,              \* the local labels of train (fresh extraction)
    rand,                \* the permutation drawn at line 116 (None before)
    calls,               \* how often each external operation was invoked
    fitArgs,             \* the arguments of the fit call (None before)
    \* ---- Trainer.__extract_data_and_label_from_avs ----
    max_workers,         \* None before line 173
    cpu_count,           \* what mp.cpu_count() returned (None before)
    MAX_WORKERS,         \* what os.getenv("MAX_WORKERS") returned (None: unset)
    slots_data,          \* the pre-allocated list train_data of the coordinator
    slots_labels,        \* the pre-allocated list labels of the coordinator
    submitted,           \* how many tasks executor.submit has queued
    not_done,            \* the set not_done of line 189 (None before)
    coordLog,            \* the records the coordinator logged at the barrier
    \* ---- Trainer.__extract_in_multithreads, one per sample ----
    task,                \* index -> the task's position, locals and future
    log                  \* index -> the records the task logged

objVars == <<attrs, attrResult>>
argVars == <<av_file_paths, subtitle_file_paths, resume>>
diskVars == <<dumpFile, savedModel, combined>>
trainVars == <<pc, branch, error, network, train_data, labels, rand, calls, fitArgs>>
coordVars == <<max_workers, cpu_count, MAX_WORKERS, slots_data, slots_labels,
               submitted, not_done, coordLog>>
taskVars == <<task, log>>
vars == <<attrs, attrResult, av_file_paths, subtitle_file_paths, resume,
          dumpFile, savedModel, combined, pc, branch, error, network,
          train_data, labels, rand, calls, fitArgs, max_workers, cpu_count,
          MAX_WORKERS, slots_data, slots_labels, submitted, not_done, coordLog,
          task, log>>

None == <<>>
Some(v) == <<v>>

(***************************************************************************)
(* Paths and tensors.                                                      *)
(***************************************************************************)
\* MediaHelper.AUDIO_FILE_EXTENSION, as far as the inputs of the model go
AUDIO_FILE_EXTENSION == {".wav"}
Extensions == {".wav", ".mp4"}

AvPath(i, ext) == [name |-> i, ext |-> ext]
SubPath(i) == [name |-> i, ext |-> ".srt"]

\* os.path.splitext(av_file_path)[1]
FileExt(path) == path.ext

\* MediaHelper.extract_audio(av_file_path, True, 16000), when it succeeds
ExtractedAudio(path) == [name |-> path.name, ext |-> ".extracted.wav"]

\* How many feature matrices the embedder yields for sample i
SampleLen(i) == IF i % 2 = 1 THEN 1 ELSE 2

\* The k-th feature matrix (Frames x FeatDim) of sample i
FeatureMatrix(i, k) ==
    [r \in 1..Frames |-> [c \in 1..FeatDim |-> 100 * i + 10 * k + 3 * r + c]]

\* The label that belongs to the k-th feature matrix of sample i
LabelOf(i, k) == 10 * i + k

\* x and y of a successful extract_data_and_label_from_audio on sample i
FeatureTensor(i) == [k \in 1..SampleLen(i) |-> FeatureMatrix(i, k)]
LabelTensor(i) == [k \in 1..SampleLen(i) |-> LabelOf(i, k)]


\* ndarray.shape of a corpus of (Frames x FeatDim) matrices; an empty dataset
\* of the dump keeps the dimensions it was created with
Shape(t) ==
    IF Len(t) = 0 THEN <<0, Frames, FeatDim>>
    ELSE <<Len(t), Len(t[1]), Len(t[1][1])>>

RECURSIVE Concatenate(_)
\* np.concatenate(arrays): the arrays joined along the first axis
Concatenate(arrays) ==
    IF Len(arrays) = 0 THEN <<>>
    ELSE Head(arrays) \o Concatenate(Tail(arrays))

\* [x for x in slots if x is not None]
RECURSIVE NotNone(_)
NotNone(slots) ==
    IF Len(slots) = 0 THEN <<>>
    ELSE IF Head(slots) = None THEN NotNone(Tail(slots))
    ELSE <<Head(slots)[1]>> \o NotNone(Tail(slots))

\* arr[rand]: numpy indexing with an index array (0-based in the code)
TakeIndex(arr, idx) == [k \in 1..Len(idx) |-> arr[idx[k]]]

\* np.random.permutation(np.arange(m)): every permutation of the indices
PermutationsOf(m) ==
    {p \in [1..m -> 1..m] : \A a, b \in 1..m : a # b => p[a] # p[b]}

\* np.rot90(m=val, k=1, axes=(0, 1)) of a matrix with R rows and C columns:
\* the result has C rows and R columns, out[i][j] = val[j][C + 1 - i]
Rot90(val) ==
    LET R == Len(val)
        C == Len(val[1])
    IN [i \in 1..C |-> [j \in 1..R |-> val[j][C + 1 - i]]]

RECURSIVE SumAt(_, _, _)
\* the sum over the first axis of element [i][j]
SumAt(t, i, j) ==
    IF Len(t) = 0 THEN 0 ELSE Head(t)[i][j] + SumAt(Tail(t), i, j)

\* train_data - np.mean(train_data, axis=0); an element x of a corpus of M
\* matrices becomes x - sum/M, kept as the exact fraction <<M*x - sum, M>>
CenterOnMean(t) ==
    LET M == Len(t)
    IN [k \in 1..M |->
          [i \in 1..Len(t[k]) |->
             [j \in 1..Len(t[k][i]) |-> <<M * t[k][i][j] - SumAt(t, i, j), M>>]]]

(***************************************************************************)
(* The disk before the call.                                               *)
(***************************************************************************)
AbsentDump == [status |-> "absent", train_data |-> <<>>, labels |-> <<>>]
CorruptDump == [status |-> "corrupt", train_data |-> <<>>, labels |-> <<>>]
EmptyDump == [status |-> "ok", train_data |-> <<>>, labels |-> <<>>]
EarlierDump ==
    [status |-> "ok", train_data |-> FeatureTensor(0), labels |-> LabelTensor(0)]
InitialDumps == {AbsentDump, CorruptDump, EmptyDump, EarlierDump}

\* The dump h5py writes at lines 112-114
DumpOf(data, lbls) == [status |-> "ok", train_data |-> data, labels |-> lbls]

SavedEarlier == [weights |-> "earlier"]
SavedCheckpoint == [weights |-> "checkpoint"]

NoNetwork == [origin |-> "none", input_shape |-> None, fitted |-> FALSE]
NoError == [type |-> "none", site |-> "none"]
NoCalls ==
    [load_model_and_weights |-> 0, get_lstm |-> 0, fit |-> 0,
     save_model_and_weights |-> 0, dump_write |-> 0]

(***************************************************************************)
(* The arguments of train.                                                 *)
(***************************************************************************)
AvLists ==
    UNION {{[i \in 1..n |-> AvPath(i, e[i])] : e \in [1..n -> Extensions]} :
           n \in 0..MaxN}
SubList(n) == [i \in 1..n |-> SubPath(i)]

\* Two lists of equal length, or one or both of them absent
Arguments ==
    {<<Some(av), Some(SubList(Len(av)))>> : av \in AvLists}
    \cup {<<Some(av), None>> : av \in AvLists}
    \cup {<<None, Some(SubList(n))>> : n \in 0..MaxN}
    \cup {<<None, None>>}

\* len(av_file_paths), the number of samples of the call
NumSamples == IF av_file_paths = None THEN 0 ELSE Len(av_file_paths[1])

(***************************************************************************)
(* The Trainer object: __init__ (lines 25-42).                             *)
(***************************************************************************)
\* self.__feature_embedder, under the name the class body mangles it to
EmbedderAttr == "_Trainer__feature_embedder"
AttrNames == {EmbedderAttr, "feature_embedder", "epochs"}
AttrValues == 0..MaxValue
\* The instance dictionary when __init__ returns: line 35 bound the embedder
\* (value 0); the two local functions of lines 38-42 are bound to nothing
AfterInit == [n \in {EmbedderAttr} |-> 0]

\* A task that has not started: its position, its local audio_file_path, the
\* exception its try block raised and at which step, and its future (with the
\* exception the future holds)
QueuedTask == [pc |-> "queued", audio_file_path |-> None,
               fault |-> "none", fault_step |-> "none",
               future |-> "pending", exc |-> "none"]

Init ==
    /\ attrs = AfterInit
    /\ attrResult = "none"
    /\ \E a \in Arguments :
         /\ av_file_paths = a[1]
         /\ subtitle_file_paths = a[2]
         /\ task = [i \in 1..(IF a[1] = None THEN 0 ELSE Len(a[1][1])) |-> QueuedTask]
         /\ log = [i \in 1..(IF a[1] = None THEN 0 ELSE Len(a[1][1])) |-> <<>>]
    /\ resume \in BOOLEAN
    /\ dumpFile \in InitialDumps
    /\ savedModel \in {None, Some(SavedEarlier)}
    /\ combined = None
    /\ pc = "start"
    /\ branch = {}
    /\ error = NoError
    /\ network = NoNetwork
    /\ train_data = None
    /\ labels = None
    /\ rand = None
    /\ calls = NoCalls
    /\ fitArgs = None
    /\ max_workers = None
    /\ cpu_count = None
    /\ MAX_WORKERS = None
    /\ slots_data = <<>>
    /\ slots_labels = <<>>
    /\ submitted = 0
    /\ not_done = None
    /\ coordLog = <<>>


(***************************************************************************)
(* Trainer.train (lines 44-152).                                           *)
(***************************************************************************)
\* An exception leaves train: nothing in train catches anything
Raise(type, site) ==
    /\ pc' = "raised"
    /\ error' = [type |-> type, site |-> site]

\* (mutation) the condition with "and" for "or"
TakesDumpBranchAnd(av, sub) == av = None /\ sub = None

\* The condition of the if at line 76
TakesDumpBranch(av, sub) == av = None \/ sub = None

\* lines 72-74: the start time and the two file paths
Start ==
    /\ pc = "start"
    /\ pc' = "decide"
    /\ UNCHANGED <<objVars, argVars, diskVars, coordVars, taskVars, branch, error,
                   network, train_data, labels, rand, calls, fitArgs>>

\* line 76: resume from the dump, or extract afresh
Decide ==
    /\ pc = "decide"
    /\ IF TakesDumpBranch(av_file_paths, subtitle_file_paths)
       THEN /\ branch' = branch \cup {"dump"}
            /\ pc' = "open_dump"
       ELSE /\ branch' = branch \cup {"fresh"}
            /\ pc' = "allocate"
    /\ UNCHANGED <<objVars, argVars, diskVars, coordVars, taskVars, error,
                   network, train_data, labels, rand, calls, fitArgs>>

\* (mutation) the dump is opened with mode "w", which truncates it
OpenDumpForWriting ==
    /\ pc = "open_dump"
    /\ dumpFile' = [status |-> "corrupt", train_data |-> <<>>, labels |-> <<>>]
    /\ Raise("KeyError", "open_dump")
    /\ UNCHANGED <<objVars, argVars, savedModel, combined, coordVars, taskVars,
                   branch, network, train_data, labels, rand, calls, fitArgs>>

\* lines 84-86: h5py.File(training_dump, "r") and its two datasets; a file that
\* is not there raises OSError, one without the datasets KeyError
OpenDump ==
    /\ pc = "open_dump"
    /\ IF dumpFile.status = "ok"
       THEN /\ train_data' = dumpFile.train_data
            /\ labels' = dumpFile.labels
            /\ pc' = "dump_network"
            /\ UNCHANGED error
       ELSE /\ Raise(IF dumpFile.status = "absent" THEN "OSError" ELSE "KeyError",
                     "open_dump")
            /\ UNCHANGED <<train_data, labels>>
    /\ UNCHANGED <<objVars, argVars, diskVars, coordVars, taskVars, branch,
                   network, rand, calls, fitArgs>>

\* Network.load_model_and_weights(model_filepath, weights_filepath)
LoadedNetwork(saved) ==
    [origin |-> "loaded", input_shape |-> None, fitted |-> FALSE]

\* Network.get_lstm(input_shape)
FreshNetwork(input_shape) ==
    [origin |-> "fresh", input_shape |-> Some(input_shape), fitted |-> FALSE]

\* line 88: which of the two ways the dump branch obtains its network
LoadsSavedModel(r) == r

\* (mutation) a saved model that cannot be loaded is replaced by a new one
DumpNetworkFallsBack ==
    /\ pc = "dump_network"
    /\ IF LoadsSavedModel(resume) /\ savedModel # None
       THEN /\ network' = LoadedNetwork(savedModel[1])
            /\ calls' = [calls EXCEPT !.load_model_and_weights = @ + 1]
       ELSE /\ network' = FreshNetwork(<<Shape(train_data)[3], Shape(train_data)[2]>>)
            /\ calls' = [calls EXCEPT !.get_lstm = @ + 1]
    /\ pc' = "dump_fit"
    /\ UNCHANGED <<objVars, argVars, diskVars, coordVars, taskVars, branch, error,
                   train_data, labels, rand, fitArgs>>

\* lines 88-93: load the saved model and weights, or build a model for the
\* shape of the dump, (train_data_raw.shape[2], train_data_raw.shape[1])
DumpNetwork ==
    /\ pc = "dump_network"
    /\ IF LoadsSavedModel(resume)
       THEN IF savedModel = None
            THEN /\ Raise("OSError", "load_model_and_weights")
                 /\ UNCHANGED network
                 /\ calls' = [calls EXCEPT !.load_model_and_weights = @ + 1]
            ELSE /\ network' = LoadedNetwork(savedModel[1])
                 /\ calls' = [calls EXCEPT !.load_model_and_weights = @ + 1]
                 /\ pc' = "dump_fit"
                 /\ UNCHANGED error
       ELSE /\ network' = FreshNetwork(<<Shape(train_data)[3], Shape(train_data)[2]>>)
            /\ calls' = [calls EXCEPT !.get_lstm = @ + 1]
            /\ pc' = "dump_fit"
            /\ UNCHANGED error
    /\ UNCHANGED <<objVars, argVars, diskVars, coordVars, taskVars, branch,
                   train_data, labels, rand, fitArgs>>

\* lines 95-104: network.fit_with_generator(train_data_raw, labels_raw, ...,
\* resume) is entered
FitWithGenerator ==
    /\ pc = "dump_fit"
    /\ fitArgs' = Some([method |-> "fit_with_generator", train_data |-> train_data,
                        labels |-> labels, resume |-> resume])
    /\ calls' = [calls EXCEPT !.fit = @ + 1]
    /\ pc' = "fitting"
    /\ UNCHANGED <<objVars, argVars, diskVars, coordVars, taskVars, branch, error,
                   network, train_data, labels, rand>>

\* (mutation) the fresh-extraction fit is handed the caller's resume
FreshFitHonoursResume(r) == r

\* The last argument of the fit call at lines 129-138
FreshFitResume(r) == FALSE

\* lines 129-138: network.fit_and_get_history(train_data, labels, ..., False)
\* is entered
FitAndGetHistory ==
    /\ pc = "fresh_fit"
    /\ fitArgs' = Some([method |-> "fit_and_get_history", train_data |-> train_data,
                        labels |-> labels, resume |-> FreshFitResume(resume)])
    /\ calls' = [calls EXCEPT !.fit = @ + 1]
    /\ pc' = "fitting"
    /\ UNCHANGED <<objVars, argVars, diskVars, coordVars, taskVars, branch, error,
                   network, train_data, labels, rand>>

\* The fit returns its validation history; it has kept model.hdf5 and
\* weights.hdf5 up to date while training
FitReturns ==
    /\ pc = "fitting"
    /\ network' = [network EXCEPT !.fitted = TRUE]
    /\ savedModel' = Some(SavedCheckpoint)
    /\ pc' = "save"
    /\ UNCHANGED <<objVars, argVars, dumpFile, combined, coordVars, taskVars,
                   branch, error, train_data, labels, rand, calls, fitArgs>>

\* (mutation) an exception of the fit is caught and the call goes on
FitRaisesIsCaught ==
    /\ pc = "fitting"
    /\ pc' = "save"
    /\ UNCHANGED <<objVars, argVars, diskVars, coordVars, taskVars, branch, error,
                   network, train_data, labels, rand, calls, fitArgs>>

\* The fit raises
FitRaises ==
    /\ pc = "fitting"
    /\ Raise("FitError", "fit")
    /\ UNCHANGED <<objVars, argVars, diskVars, coordVars, taskVars, branch,
                   network, train_data, labels, rand, calls, fitArgs>>

\* (mutation) the save is part of the else block of line 105
SaveInElseOnly ==
    /\ pc = "save"
    /\ IF "fresh" \in branch
       THEN /\ combined' = Some(network)
            /\ calls' = [calls EXCEPT !.save_model_and_weights = @ + 1]
       ELSE UNCHANGED <<combined, calls>>
    /\ pc' = "returned"
    /\ UNCHANGED <<objVars, argVars, dumpFile, savedModel, coordVars, taskVars,
                   branch, error, network, train_data, labels, rand, fitArgs>>

\* lines 140-152: log the best loss and accuracy and the elapsed time, then
\* network.save_model_and_weights(..., model_dir/combined.hdf5)
Save ==
    /\ pc = "save"
    /\ combined' = Some(network)
    /\ calls' = [calls EXCEPT !.save_model_and_weights = @ + 1]
    /\ pc' = "returned"
    /\ UNCHANGED <<objVars, argVars, dumpFile, savedModel, coordVars, taskVars,
                   branch, error, network, train_data, labels, rand, fitArgs>>

(***************************************************************************)
(* Trainer.__extract_data_and_label_from_avs (lines 154-216), called at    *)
(* line 106.                                                               *)
(***************************************************************************)
\* lines 167-170: one empty slot per path of either list (len(None) raises)
Allocate ==
    /\ pc = "allocate"
    /\ IF av_file_paths = None \/ subtitle_file_paths = None
       THEN /\ Raise("TypeError", "allocate")
            /\ UNCHANGED <<slots_data, slots_labels>>
       ELSE /\ slots_data' = [i \in 1..Len(av_file_paths[1]) |-> None]
            /\ slots_labels' = [i \in 1..Len(subtitle_file_paths[1]) |-> None]
            /\ pc' = "create_pool"
            /\ UNCHANGED error
    /\ UNCHANGED <<objVars, argVars, diskVars, taskVars, branch, network,
                   train_data, labels, rand, calls, fitArgs, max_workers,
                   cpu_count, MAX_WORKERS, submitted, not_done,
                   coordLog>>

\* What os.getenv("MAX_WORKERS") returns
Overrides == {None} \cup {Some(k) : k \in 0..MaxOverride}

\* The machines the call runs on: any number of processing units where the
\* override is unset, and the largest machine under every override
Environments ==
    {[cpus |-> c, override |-> None] : c \in 1..MaxCpu}
    \cup {[cpus |-> MaxCpu, override |-> o] : o \in Overrides}

\* line 173: int(os.getenv("MAX_WORKERS", mp.cpu_count() / 2)); int() of the
\* float cpu/2 truncates it
WorkerCount(override, cpus) ==
    IF override # None THEN override[1] ELSE cpus \div 2

\* lines 173-176: ThreadPoolExecutor(max_workers=...) raises ValueError when
\* max_workers <= 0
CreatePool ==
    /\ pc = "create_pool"
    /\ \E env \in Environments :
         /\ cpu_count' = Some(env.cpus)
         /\ MAX_WORKERS' = env.override
         /\ max_workers' = Some(WorkerCount(env.override, env.cpus))
         /\ IF WorkerCount(env.override, env.cpus) <= 0
            THEN Raise("ValueError", "create_pool")
            ELSE pc' = "submit" /\ UNCHANGED error
    /\ UNCHANGED <<objVars, argVars, diskVars, taskVars, branch, network,
                   train_data, labels, rand, calls, fitArgs, slots_data,
                   slots_labels, submitted, not_done,
                   coordLog>>

\* lines 177-188: executor.submit for the next index of range(len(av_file_paths))
Submit ==
    /\ pc = "submit"
    /\ submitted < NumSamples
    /\ submitted' = submitted + 1
    /\ UNCHANGED <<objVars, argVars, diskVars, trainVars, taskVars, max_workers,
                   cpu_count, MAX_WORKERS, slots_data, slots_labels, not_done,
                   coordLog>>

\* The list of futures is complete: the coordinator calls wait at line 189
AllSubmitted ==
    /\ pc = "submit"
    /\ submitted = NumSamples
    /\ pc' = "wait"
    /\ UNCHANGED <<objVars, argVars, diskVars, coordVars, taskVars, branch, error,
                   network, train_data, labels, rand, calls, fitArgs>>

\* (mutation) wait is called with return_when=FIRST_COMPLETED
WaitReturnsOnFirstCompleted(t) == \E i \in DOMAIN t : t[i].future # "pending"

\* concurrent.futures.wait(futures), with its defaults timeout=None and
\* return_when=ALL_COMPLETED, returns once no future is pending
WaitReturns(t) == \A i \in DOMAIN t : t[i].future # "pending"

\* The set not_done that wait returns with
NotDone(t) == {i \in DOMAIN t : t[i].future = "pending"}

\* lines 191-203: one iteration of the loop over not_done.  future.result()
\* returns the two paths of line 269, which line 192 logs, or raises the
\* exception the future holds, which line 199 logs
NotDoneRecord(t, i) ==
    IF t[i].future = "raised"
    THEN [kind |-> "unexpected", index |-> i, exc |-> t[i].exc,
          audio |-> None, subtitle |-> None]
    ELSE [kind |-> "not_done", index |-> i, exc |-> "none",
          audio |-> t[i].audio_file_path,
          subtitle |-> Some(subtitle_file_paths[1][i])]

RECURSIVE NotDoneLog(_, _)
\* lines 190-203: the records of the loop over the futures of not_done
NotDoneLog(t, pending) ==
    IF pending = {} THEN <<>>
    ELSE LET i == CHOOSE m \in pending : \A n \in pending : m <= n
         IN <<NotDoneRecord(t, i)>> \o NotDoneLog(t, pending \ {i})

\* (mutation) the coordinator neither waits for the futures nor for the
\* shutdown of the pool
BarrierDoesNotWait ==
    /\ pc = "wait"
    /\ not_done' = Some(NotDone(task))
    /\ coordLog' = coordLog \o NotDoneLog(task, NotDone(task))
    /\ pc' = "filter"
    /\ UNCHANGED <<objVars, argVars, diskVars, taskVars, branch, error, network,
                   train_data, labels, rand, calls, fitArgs, max_workers,
                   cpu_count, MAX_WORKERS, slots_data, slots_labels, submitted>>

\* (mutation) the coordinator takes the result of every completed future, so
\* that the exception a future holds is raised in the coordinator
BarrierTakesResults ==
    /\ pc = "wait"
    /\ WaitReturns(task)
    /\ IF \E i \in DOMAIN task : task[i].future = "raised"
       THEN Raise("UnboundLocalError", "wait")
       ELSE pc' = "filter" /\ UNCHANGED error
    /\ UNCHANGED <<objVars, argVars, diskVars, taskVars, branch, network,
                   train_data, labels, rand, calls, fitArgs, coordVars>>

\* lines 189-203: the barrier and the loop over not_done; leaving the with
\* block shuts the pool down
Barrier ==
    /\ pc = "wait"
    /\ WaitReturns(task)
    /\ not_done' = Some(NotDone(task))
    /\ coordLog' = coordLog \o NotDoneLog(task, NotDone(task))
    /\ pc' = "filter"
    /\ UNCHANGED <<objVars, argVars, diskVars, taskVars, branch, error, network,
                   train_data, labels, rand, calls, fitArgs, max_workers,
                   cpu_count, MAX_WORKERS, slots_data, slots_labels, submitted>>

\* lines 205-209: drop the empty slots and concatenate what is left;
\* np.concatenate of an empty list raises ValueError
FilterAndConcatenate ==
    /\ pc = "filter"
    /\ IF NotNone(slots_data) = <<>> \/ NotNone(slots_labels) = <<>>
       THEN /\ Raise("ValueError", "concatenate")
            /\ UNCHANGED <<train_data, labels>>
       ELSE /\ train_data' = Concatenate(NotNone(slots_data))
            /\ labels' = Concatenate(NotNone(slots_labels))
            /\ pc' = "write_dump"
            /\ UNCHANGED error
    /\ UNCHANGED <<objVars, argVars, diskVars, coordVars, taskVars, branch,
                   network, rand, calls, fitArgs>>

(***************************************************************************)
(* The fresh-extraction branch of train after the coordinator returned     *)
(* (lines 110-138).                                                        *)
(***************************************************************************)
\* lines 111-114: h5py.File(training_dump, "w") and its two datasets
WriteDump ==
    /\ pc = "write_dump"
    /\ dumpFile' = DumpOf(train_data, labels)
    /\ calls' = [calls EXCEPT !.dump_write = @ + 1]
    /\ pc' = "permute"
    /\ UNCHANGED <<objVars, argVars, savedModel, combined, coordVars, taskVars,
                   branch, error, network, train_data, labels, rand, fitArgs>>

\* (mutation) the labels are indexed with a permutation drawn on its own
PermuteIndependently ==
    /\ pc = "permute"
    /\ \E p, q \in PermutationsOf(Len(labels)) :
         /\ rand' = Some(p)
         /\ train_data' = TakeIndex(train_data, p)
         /\ labels' = TakeIndex(labels, q)
    /\ pc' = "normalise"
    /\ UNCHANGED <<objVars, argVars, diskVars, coordVars, taskVars, branch, error,
                   network, calls, fitArgs>>

\* lines 116-118: one permutation of the indices, applied to both arrays
Permute ==
    /\ pc = "permute"
    /\ \E p \in PermutationsOf(Len(labels)) :
         /\ rand' = Some(p)
         /\ train_data' = TakeIndex(train_data, p)
         /\ labels' = TakeIndex(labels, p)
    /\ pc' = "normalise"
    /\ UNCHANGED <<objVars, argVars, diskVars, coordVars, taskVars, branch, error,
                   network, calls, fitArgs>>

\* lines 120-123: rotate every matrix, then subtract the mean over the corpus
Normalise ==
    /\ pc = "normalise"
    /\ train_data' = CenterOnMean([k \in 1..Len(train_data) |-> Rot90(train_data[k])])
    /\ pc' = "fresh_network"
    /\ UNCHANGED <<objVars, argVars, diskVars, coordVars, taskVars, branch, error,
                   network, labels, rand, calls, fitArgs>>

\* lines 125-128: Network.get_lstm((train_data.shape[1], train_data.shape[2]))
GetLstm ==
    /\ pc = "fresh_network"
    /\ network' = FreshNetwork(<<Shape(train_data)[2], Shape(train_data)[3]>>)
    /\ calls' = [calls EXCEPT !.get_lstm = @ + 1]
    /\ pc' = "fresh_fit"
    /\ UNCHANGED <<objVars, argVars, diskVars, coordVars, taskVars, branch, error,
                   train_data, labels, rand, fitArgs>>


(***************************************************************************)
(* Trainer.__extract_in_multithreads (lines 218-269), one call per sample, *)
(* run by the workers of the pool.                                         *)
(***************************************************************************)
\* What MediaHelper.extract_audio and the embedder raise
RecognisedExceptions == {"UnsupportedFormatException", "TerminalException"}
Exceptions == RecognisedExceptions \cup {"RuntimeError"}

Running(t) == {i \in DOMAIN t : t[i].pc \notin {"queued", "done"}}

\* A worker is idle and index i is the head of the pool's work queue
CanStart(i) ==
    /\ pc \in {"submit", "wait"}
    /\ i <= submitted
    /\ task[i].pc = "queued"
    /\ \A j \in 1..(i - 1) : task[j].pc # "queued"
    /\ Cardinality(Running(task)) < max_workers[1]

\* The second logger call of either handler, lines 250-254 and 261-265, formats
\* the local audio_file_path: when the task never bound it the read raises
\* UnboundLocalError and the record is not logged
PathsRecord(i, audio) ==
    IF audio = None THEN <<>>
    ELSE <<[kind |-> "paths", audio |-> audio[1],
            subtitle |-> subtitle_file_paths[1][i]]>>

\* lines 244-265: what the except clauses log for exception exc
HandlerLog(i, audio, exc) ==
    <<[kind |-> IF exc \in RecognisedExceptions THEN "exception" ELSE "unexpected",
       exc |-> exc]>>
    \o PathsRecord(i, audio)

\* lines 244-269: the task after exception exc was raised in its try block: the
\* handler logs and line 269 returns, unless the handler itself raised
AfterHandler(t, exc) ==
    LET u == [t EXCEPT !.pc = "done", !.fault = exc,
                       !.fault_step = IF t.pc = "extract_audio" THEN "audio"
                                      ELSE "features"]
    IN IF t.audio_file_path = None
       THEN [u EXCEPT !.future = "raised", !.exc = "UnboundLocalError"]
       ELSE [u EXCEPT !.future = "returned"]

\* lines 221-224, 235: a worker takes the task; an audio file is used as it is
TaskStart(i) ==
    /\ CanStart(i)
    /\ IF FileExt(av_file_paths[1][i]) \notin AUDIO_FILE_EXTENSION
       THEN task' = [task EXCEPT ![i].pc = "extract_audio"]
       ELSE task' = [task EXCEPT ![i].pc = "extract_features",
                                 ![i].audio_file_path = Some(av_file_paths[1][i])]
    /\ UNCHANGED <<objVars, argVars, diskVars, trainVars, coordVars, log>>

\* lines 225-233: MediaHelper.extract_audio returns the audio path or raises
ExtractAudio(i) ==
    /\ task[i].pc = "extract_audio"
    /\ \E outcome \in {"ok"} \cup Exceptions :
         IF outcome = "ok"
         THEN /\ task' = [task EXCEPT
                    ![i].pc = "extract_features",
                    ![i].audio_file_path = Some(ExtractedAudio(av_file_paths[1][i]))]
              /\ UNCHANGED log
         ELSE /\ log' = [log EXCEPT
                    ![i] = @ \o HandlerLog(i, task[i].audio_file_path, outcome)]
              /\ task' = [task EXCEPT ![i] = AfterHandler(@, outcome)]
    /\ UNCHANGED <<objVars, argVars, diskVars, trainVars, coordVars>>

\* lines 237-242: extract_data_and_label_from_audio returns x, y or raises
ExtractFeatures(i) ==
    /\ task[i].pc = "extract_features"
    /\ \E outcome \in {"ok"} \cup Exceptions :
         IF outcome = "ok"
         THEN /\ task' = [task EXCEPT ![i].pc = "write_data"]
              /\ UNCHANGED log
         ELSE /\ log' = [log EXCEPT
                    ![i] = @ \o HandlerLog(i, task[i].audio_file_path, outcome)]
              /\ task' = [task EXCEPT ![i] = AfterHandler(@, outcome)]
    /\ UNCHANGED <<objVars, argVars, diskVars, trainVars, coordVars>>

\* (mutation) every task writes to the first slot
SlotOfFirst(index) == 1

\* The slot index a task writes its results to (lines 267-268)
SlotOf(index) == index

\* line 267: train_data[index] = x
WriteData(i) ==
    /\ task[i].pc = "write_data"
    /\ slots_data' = [slots_data EXCEPT ![SlotOf(i)] = Some(FeatureTensor(i))]
    /\ task' = [task EXCEPT ![i].pc = "write_labels"]
    /\ UNCHANGED <<objVars, argVars, diskVars, trainVars, log, max_workers,
                   cpu_count, MAX_WORKERS, slots_labels, submitted, not_done,
                   coordLog>>

\* (mutation) line 268 assigns y to train_data[index]
WriteLabelsIntoData(i) ==
    /\ task[i].pc = "write_labels"
    /\ slots_data' = [slots_data EXCEPT ![SlotOf(i)] = Some(LabelTensor(i))]
    /\ task' = [task EXCEPT ![i].pc = "done", ![i].future = "returned"]
    /\ UNCHANGED <<objVars, argVars, diskVars, trainVars, log, max_workers,
                   cpu_count, MAX_WORKERS, slots_labels, submitted, not_done,
                   coordLog>>

\* lines 268-269: labels[index] = y, and the task returns its two paths
WriteLabels(i) ==
    /\ task[i].pc = "write_labels"
    /\ slots_labels' = [slots_labels EXCEPT ![SlotOf(i)] = Some(LabelTensor(i))]
    /\ task' = [task EXCEPT ![i].pc = "done", ![i].future = "returned"]
    /\ UNCHANGED <<objVars, argVars, diskVars, trainVars, log, max_workers,
                   cpu_count, MAX_WORKERS, slots_data, submitted, not_done,
                   coordLog>>

\* (mutation) line 198 catches the two recognised exceptions only
CaughtRecognisedOnly == RecognisedExceptions

\* line 198, except Exception: the exceptions the loop over not_done catches,
\* which are all that a future of the pool can hold
CaughtAtBarrier == Exceptions \cup {"UnboundLocalError"}

\* The orders in which a for loop can go through the set S
Orderings(S) ==
    {order \in [1..Cardinality(S) -> S] :
        \A a, b \in 1..Cardinality(S) : a # b => order[a] # order[b]}

\* lines 189-203 for a wait that hands back the futures of nd as not completed
\* (as it does when it is given a timeout).  future.result() at line 192
\* blocks until its future is complete and the end of the with block waits
\* for every other one, so the step has ended once no future is pending; an
\* exception that line 198 does not catch leaves the coordinator
NotDoneLoop ==
    /\ pc = "wait"
    /\ \A i \in DOMAIN task : task[i].future # "pending"
    /\ \E nd \in SUBSET DOMAIN task :
         \E order \in Orderings(nd) :
            LET escaping == {k \in DOMAIN order :
                                /\ task[order[k]].future = "raised"
                                /\ task[order[k]].exc \notin CaughtAtBarrier}
                first == IF escaping = {} THEN Len(order) + 1
                         ELSE CHOOSE k \in escaping : \A m \in escaping : k <= m
            IN /\ not_done' = Some(nd)
               /\ coordLog' = coordLog \o [k \in 1..(first - 1) |->
                                               NotDoneRecord(task, order[k])]
               /\ IF escaping = {}
                  THEN pc' = "filter" /\ UNCHANGED error
                  ELSE Raise(task[order[first]].exc, "not_done")
    /\ UNCHANGED <<objVars, argVars, diskVars, taskVars, branch, network,
                   train_data, labels, rand, calls, fitArgs, max_workers,
                   cpu_count, MAX_WORKERS, slots_data, slots_labels, submitted>>

(***************************************************************************)
(* One call of train on a constructed Trainer.                             *)
(***************************************************************************)
Next ==
    \/ Start
    \/ Decide
    \/ OpenDump
    \/ DumpNetwork
    \/ FitWithGenerator
    \/ Allocate
    \/ CreatePool
    \/ Submit
    \/ AllSubmitted
    \/ \E i \in DOMAIN task : TaskStart(i)
    \/ \E i \in DOMAIN task : ExtractAudio(i)
    \/ \E i \in DOMAIN task : ExtractFeatures(i)
    \/ \E i \in DOMAIN task : WriteData(i)
    \/ \E i \in DOMAIN task : WriteLabels(i)
    \/ Barrier
    \/ FilterAndConcatenate
    \/ WriteDump
    \/ Permute
    \/ Normalise
    \/ GetLstm
    \/ FitAndGetHistory
    \/ FitReturns
    \/ FitRaises
    \/ Save

Spec == Init /\ [][Next]_vars


(***************************************************************************)
(* The coordinator of a fresh-extraction call and its tasks (lines         *)
(* 154-269), up to the return of line 216.                                 *)
(***************************************************************************)
\* A call of train with both lists, on a disk without dump or saved model
InitCoordinator ==
    /\ Init
    /\ av_file_paths # None
    /\ subtitle_file_paths # None
    /\ resume = FALSE
    /\ dumpFile = AbsentDump
    /\ savedModel = None

\* The steps of the thread that called train
CoordinatorStep ==
    \/ Start
    \/ Decide
    \/ Allocate
    \/ CreatePool
    \/ Submit
    \/ AllSubmitted
    \/ Barrier
    \/ FilterAndConcatenate

\* The steps of the workers of the pool
TaskStep ==
    \/ \E i \in DOMAIN task : TaskStart(i)
    \/ \E i \in DOMAIN task : ExtractAudio(i)
    \/ \E i \in DOMAIN task : ExtractFeatures(i)
    \/ \E i \in DOMAIN task : WriteData(i)
    \/ \E i \in DOMAIN task : WriteLabels(i)

NextCoordinator == CoordinatorStep \/ TaskStep

\* The calling thread is scheduled whenever it can take a step, and an idle
\* worker of the pool takes the head of the work queue.  Nothing is assumed
\* of the time that the extraction of a sample takes: a task that was started
\* may never end.
FairScheduling ==
    /\ WF_vars(CoordinatorStep)
    /\ \A i \in 1..MaxN : WF_vars(TaskStart(i))

SpecFair == InitCoordinator /\ [][NextCoordinator]_vars /\ FairScheduling

(***************************************************************************)
(* The same coordinator under a wait that can report futures as not        *)
(* completed.  The wait of line 189 never does; this is the environment in *)
(* which the loop of lines 190-203 has iterations.                         *)
(***************************************************************************)
NextNotDone ==
    \/ Start
    \/ Decide
    \/ Allocate
    \/ CreatePool
    \/ Submit
    \/ AllSubmitted
    \/ TaskStep
    \/ NotDoneLoop
    \/ FilterAndConcatenate

SpecNotDone == InitCoordinator /\ [][NextNotDone]_vars


(***************************************************************************)
(* The attribute protocol of a constructed Trainer.  The functions         *)
(* __setattr__ and __delattr__ of lines 38-42 are locals of __init__: they *)
(* are bound neither to the class nor to the instance, so setattr and      *)
(* delattr on a Trainer are those of object.                               *)
(***************************************************************************)
\* setattr(trainer, name, value)
SetAttr(n, v) ==
    /\ attrs' = [m \in DOMAIN attrs \cup {n} |-> IF m = n THEN v ELSE attrs[m]]
    /\ attrResult' = "returned"
    /\ UNCHANGED <<argVars, diskVars, trainVars, coordVars, taskVars>>

\* delattr(trainer, name)
DelAttr(n) ==
    /\ IF n \in DOMAIN attrs
       THEN /\ attrs' = [m \in DOMAIN attrs \ {n} |-> attrs[m]]
            /\ attrResult' = "returned"
       ELSE /\ attrResult' = "AttributeError"
            /\ UNCHANGED attrs
    /\ UNCHANGED <<argVars, diskVars, trainVars, coordVars, taskVars>>

InitObject ==
    /\ Init
    /\ av_file_paths = None
    /\ subtitle_file_paths = None
    /\ resume = FALSE
    /\ dumpFile = AbsentDump
    /\ savedModel = None

NextObject ==
    \/ \E n \in AttrNames, v \in AttrValues : SetAttr(n, v)
    \/ \E n \in AttrNames : DelAttr(n)

SpecObject == InitObject /\ [][NextObject]_vars


(***************************************************************************)
(* Vocabulary of the properties.                                           *)
(***************************************************************************)
\* The samples whose extraction failed, and those whose extraction succeeded
Failed == {i \in DOMAIN task : task[i].fault # "none"}
Succeeded == {i \in DOMAIN task : task[i].pc = "done" /\ task[i].fault = "none"}

RECURSIVE Ascending(_)
\* The members of a set of indices in ascending order
Ascending(S) ==
    IF S = {} THEN <<>>
    ELSE LET m == CHOOSE x \in S : \A y \in S : x <= y
         IN <<m>> \o Ascending(S \ {m})

\* The feature and label tensors of the samples of S, joined in index order
FeaturesOf(S) ==
    Concatenate([k \in 1..Cardinality(S) |-> FeatureTensor(Ascending(S)[k])])
LabelsOf(S) ==
    Concatenate([k \in 1..Cardinality(S) |-> LabelTensor(Ascending(S)[k])])

\* The call is on the fresh-extraction branch and the coordinator has passed
\* its barrier (line 189)
PastBarrier ==
    /\ "fresh" \in branch
    /\ \/ pc \in {"filter", "write_dump", "permute", "normalise", "fresh_network",
                  "fresh_fit", "fitting", "save", "returned"}
       \/ pc = "raised" /\ error.site \in {"concatenate", "fit"}

\* The coordinator has returned to line 106 and train has not yet gone on
CoordinatorReturned == pc = "write_dump"

\* The coordinator has ended, by returning or by raising in its last step
CoordinatorEnded ==
    CoordinatorReturned \/ (pc = "raised" /\ error.site = "concatenate")

\* C1: for every input of N samples and every subset F of failing samples the
\* coordinator returns, and what it returns is the concatenation in ascending
\* index order of the feature tensors and of the label tensors of exactly the
\* samples not in F.
C1_ReturnsSurvivorsOfEverySubset ==
    CoordinatorEnded =>
        /\ CoordinatorReturned
        /\ train_data = FeaturesOf(DOMAIN task \ Failed)
        /\ labels = LabelsOf(DOMAIN task \ Failed)


\* C2: a per-sample failure is not fatal.  Whatever tasks fail, at whichever
\* step and with whichever exception, no error leaves the fan-out or the
\* barrier (an error of a call in which a task failed is raised by the
\* filter/concatenate step or later); once the barrier is passed every task
\* has completed and every task that did not fail has filled both of its slots
\* with its own tensors; and a coordinator waiting at the barrier with all of
\* its tasks completed can pass it.
C2_FailuresAreNotFatal ==
    /\ (pc = "raised" /\ Failed # {}) => error.site \in {"concatenate", "fit"}
    /\ PastBarrier =>
         \A i \in DOMAIN task :
            /\ task[i].pc = "done"
            /\ i \notin Failed =>
                 /\ slots_data[i] = Some(FeatureTensor(i))
                 /\ slots_labels[i] = Some(LabelTensor(i))
    /\ (pc = "wait" /\ \A i \in DOMAIN task : task[i].pc = "done") => ENABLED Barrier

\* C2 witness: the barrier is passed in a call in which one task failed in the
\* audio step, so that its handler raised in turn, and another task succeeded.
C2_Witness ==
    /\ pc = "filter"
    /\ \E i, j \in DOMAIN task :
         /\ task[i].fault_step = "audio"
         /\ task[i].future = "raised"
         /\ j \in Succeeded
         /\ slots_data[j] # None

\* The records of task i that name the sample's audio and subtitle paths
PathsRecords(i) ==
    {k \in DOMAIN log[i] :
        /\ log[i][k].kind = "paths"
        /\ log[i][k].audio.name = av_file_paths[1][i].name
        /\ log[i][k].subtitle = subtitle_file_paths[1][i]}

\* C3: for every sample that is excluded because its extraction failed,
\* exactly one record naming the sample's audio and subtitle paths is logged,
\* whichever step of the task failed.
C3_OnePathsRecordPerFailure ==
    \A i \in DOMAIN task :
        (task[i].pc = "done" /\ i \in Failed) => Cardinality(PathsRecords(i)) = 1

\* C4: when no slot survives the filter (every sample failed, or there was
\* none), the coordinator does not raise inside the concatenation: the empty
\* corpus is reported as a handled error and no fit is started on it.
C4_EmptyCorpusIsHandled ==
    (PastBarrier /\ pc # "filter" /\ NotNone(slots_data) = <<>>) =>
        /\ ~(pc = "raised" /\ error.site = "concatenate")
        /\ calls.fit = 0


\* A path list that is None or []
AbsentOrEmpty(paths) == paths = None \/ paths = Some(<<>>)

\* C5 as stated: the resume-from-dump branch is taken exactly when both path
\* lists are absent or empty, the fresh-extraction branch otherwise, and
\* exactly one of the two branches runs.
C5_DumpBranchIffBothAbsentOrEmpty ==
    pc \notin {"start", "decide"} =>
        /\ Cardinality(branch) = 1
        /\ "dump" \in branch <=>
              (AbsentOrEmpty(av_file_paths) /\ AbsentOrEmpty(subtitle_file_paths))

\* C5 amended: the resume-from-dump branch is taken exactly when at least one
\* of the two path lists is absent (None), and the fresh-extraction branch
\* otherwise, two empty lists included; no branch runs before the decision
\* and exactly one of the two runs after it.
C5_DumpBranchIffAListIsAbsent ==
    /\ pc \in {"start", "decide"} => branch = {}
    /\ pc \notin {"start", "decide"} =>
         /\ Cardinality(branch) = 1
         /\ "dump" \in branch <=>
               (av_file_paths = None \/ subtitle_file_paths = None)

\* C5 witness: a call with the audio/video list absent and a subtitle list of
\* one path has gone through the resume-from-dump branch.
C5_Witness ==
    /\ pc = "returned"
    /\ branch = {"dump"}
    /\ av_file_paths = None
    /\ subtitle_file_paths = Some(SubList(1))

C7_ReturnedCallSavedCombinedOnce ==
    /\ pc = "returned" =>
         /\ calls.save_model_and_weights = 1
         /\ calls.fit = 1
         /\ network.fitted
         /\ combined = Some(network)
    /\ pc # "returned" => (calls.save_model_and_weights = 0 /\ combined = None)

\* C7 witness: a call on the resume-from-dump branch has returned.
C7_Witness ==
    /\ pc = "returned"
    /\ branch = {"dump"}
    /\ combined # None


\* C8: a Trainer is immutable after construction: every attempt to set or to
\* delete an attribute fails with NotImplementedError, and the instance keeps
\* the attributes it was constructed with, the bound feature embedder among
\* them.
C8_TrainerIsImmutable ==
    /\ attrResult \in {"none", "NotImplementedError"}
    /\ attrs = AfterInit

\* C9: a failure to read the dump on the resume-from-dump branch, or to load
\* the saved model and weights when resume is set, is fatal to the call: it
\* cannot be passed over (a call that is beyond the failing step has raised
\* there), the call ends with that error, and neither a fit nor the save of
\* the combined artifact has taken place.
C9_InputFailureIsFatal ==
    /\ error.site \in {"open_dump", "load_model_and_weights"} =>
         /\ pc = "raised"
         /\ calls.fit = 0
         /\ fitArgs = None
         /\ calls.save_model_and_weights = 0
         /\ combined = None
    /\ ("dump" \in branch /\ pc # "open_dump" /\ dumpFile.status # "ok") =>
         (pc = "raised" /\ error.site = "open_dump")
    /\ ("dump" \in branch /\ pc \notin {"open_dump", "dump_network"}
          /\ resume /\ savedModel = None) =>
         (pc = "raised" /\ error.site \in {"open_dump", "load_model_and_weights"})

\* C9 witness: a resume call whose dump was read has ended with the error of
\* loading a saved model that is not there.
C9_Witness ==
    /\ pc = "raised"
    /\ error = [type |-> "OSError", site |-> "load_model_and_weights"]
    /\ resume
    /\ dumpFile = EarlierDump

\* The call is on the fresh-extraction branch and beyond lines 112-114
PastWriteDump ==
    /\ "fresh" \in branch
    /\ \/ pc \in {"permute", "normalise", "fresh_network", "fresh_fit", "fitting",
                  "save", "returned"}
       \/ pc = "raised" /\ error.site = "fit"

\* C10: the dump is written exactly once in a call whose fresh extraction
\* returned a corpus, and never before; what it then holds are the feature and
\* label arrays as the coordinator returned them (the surviving slots joined
\* in index order), whatever permutation, rotation and centering follow.  A
\* call on the resume-from-dump branch never writes the dump, and no step of
\* it changes the file.
C10_DumpIsRawCorpusWrittenOnce ==
    /\ [](/\ PastWriteDump =>
               /\ calls.dump_write = 1
               /\ dumpFile = DumpOf(Concatenate(NotNone(slots_data)),
                                    Concatenate(NotNone(slots_labels)))
          /\ ~PastWriteDump => calls.dump_write = 0
          /\ "dump" \in branch => calls.dump_write = 0)
    /\ [][("fresh" \notin branch') => dumpFile' = dumpFile]_vars

\* C10 witness: a fresh-extraction call has returned after a permutation that
\* moved the first sample and a centering, and the dump differs from the
\* arrays that were fitted.
C10_Witness ==
    /\ pc = "returned"
    /\ "fresh" \in branch
    /\ rand # None
    /\ rand[1][1] # 1
    /\ dumpFile.status = "ok"
    /\ dumpFile.train_data # train_data
    /\ dumpFile.labels # labels

\* C11: the worker count of the pool is the operator override when one is set
\* and floor(processing units / 2) otherwise, and without an override it is
\* never less than 1: for every number of processing units >= 1 the pool is
\* created, with at least one worker.
C11_AtLeastOneWorker ==
    max_workers # None =>
        /\ max_workers[1] = (IF MAX_WORKERS # None THEN MAX_WORKERS[1]
                             ELSE cpu_count[1] \div 2)
        /\ MAX_WORKERS = None =>
             /\ max_workers[1] >= 1
             /\ ~(pc = "raised" /\ error.site = "create_pool")

\* The phase of the call's state machine that a position of train belongs to;
\* a call that has raised is in none of them
Phase(p) ==
    CASE p = "start" -> "START"
      [] p = "decide" -> "DECIDE_SOURCE"
      [] p = "open_dump" -> "LOADING_DUMP"
      [] p \in {"allocate", "create_pool", "submit", "wait", "filter"} -> "EXTRACTING"
      [] p \in {"dump_network", "dump_fit", "write_dump", "permute", "normalise",
                "fresh_network", "fresh_fit"} -> "CORPUS_READY"
      [] p \in {"fitting", "save"} -> "FITTING"
      [] p = "returned" -> "ARTIFACT_SAVED"
      [] OTHER -> "RAISED"

\* The place of a phase in START, DECIDE_SOURCE, EXTRACTING | LOADING_DUMP,
\* CORPUS_READY, FITTING, ARTIFACT_SAVED
Rank(ph) ==
    CASE ph = "START" -> 0
      [] ph = "DECIDE_SOURCE" -> 1
      [] ph \in {"EXTRACTING", "LOADING_DUMP"} -> 2
      [] ph = "CORPUS_READY" -> 3
      [] ph = "FITTING" -> 4
      [] ph = "ARTIFACT_SAVED" -> 5
      [] OTHER -> 6

\* C12: within one call the phases only move forward: every step stays in its
\* phase, enters the next one, or ends the call with an error, so that no
\* phase is entered twice; the fit is entered from CORPUS_READY only; and
\* ARTIFACT_SAVED is entered only from FITTING with the fit completed, a call
\* whose fit (or any other step) raised never reaching it.
C12_PhasesMoveForward ==
    [][/\ \/ Phase(pc') = Phase(pc)
          \/ Rank(Phase(pc')) = Rank(Phase(pc)) + 1
          \/ Phase(pc') = "RAISED"
       /\ Phase(pc) = "RAISED" => Phase(pc') = "RAISED"
       /\ (Phase(pc') = "FITTING" /\ Phase(pc) # "FITTING") =>
             (Phase(pc) = "CORPUS_READY" /\ network.origin # "none")
       /\ Phase(pc') = "ARTIFACT_SAVED" =>
             /\ Phase(pc) \in {"FITTING", "ARTIFACT_SAVED"}
             /\ network'.fitted
             /\ combined' = Some(network')
       /\ Phase(pc) # "ARTIFACT_SAVED" => combined = None]_vars

\* C12 witness: a fresh-extraction call has gone through every phase and
\* saved the artifact of its completed fit.
C12_Witness ==
    /\ Phase(pc) = "ARTIFACT_SAVED"
    /\ "fresh" \in branch
    /\ calls.dump_write = 1
    /\ network.fitted

\* The state shared by the tasks and the coordinator other than the slots
sharedVars ==
    <<argVars, diskVars, trainVars, max_workers, cpu_count, MAX_WORKERS,
      submitted, not_done, coordLog>>

\* C13: under every interleaving a step of a task changes, of the state it
\* shares, nothing but a slot at the task's own index: a step of task i leaves
\* every other task and every slot of another index as they are, a feature
\* slot k changes only in task k's write of line 267 and a label slot k only
\* in task k's write of line 268, each from empty to task k's tensor (so that
\* no slot is written twice), every write takes place before the barrier is
\* passed, and the coordinator filters the slots only when every task has
\* completed.
C13_TasksWriteOnlyTheirOwnSlots ==
    /\ [][/\ task' # task =>
               /\ UNCHANGED sharedVars
               /\ \E i \in DOMAIN task :
                    /\ \A j \in DOMAIN task \ {i} :
                         task'[j] = task[j] /\ log'[j] = log[j]
                    /\ \A k \in DOMAIN slots_data \ {i} :
                         slots_data'[k] = slots_data[k]
                    /\ \A k \in DOMAIN slots_labels \ {i} :
                         slots_labels'[k] = slots_labels[k]
          /\ \A k \in DOMAIN slots_data :
               slots_data'[k] # slots_data[k] =>
                  /\ task[k].pc = "write_data" /\ task'[k].pc = "write_labels"
                  /\ slots_data[k] = None /\ slots_data'[k] = Some(FeatureTensor(k))
                  /\ pc \in {"submit", "wait"}
          /\ \A k \in DOMAIN slots_labels :
               slots_labels'[k] # slots_labels[k] =>
                  /\ task[k].pc = "write_labels" /\ task'[k].pc = "done"
                  /\ slots_labels[k] = None /\ slots_labels'[k] = Some(LabelTensor(k))
                  /\ pc \in {"submit", "wait"}]_vars
    /\ [](pc = "filter" => \A i \in DOMAIN task : task[i].pc = "done")

\* C13 witness: two tasks run at once, the second between its two writes and
\* the first about to write its feature slot.
C13_Witness ==
    /\ pc \in {"submit", "wait"}
    /\ \E i, j \in DOMAIN task :
         /\ i < j
         /\ task[i].pc = "write_data"
         /\ task[j].pc = "write_labels"
         /\ slots_data[j] = Some(FeatureTensor(j))
         /\ slots_data[i] = None

\* The call is at a statement that writes the dump (lines 112-114), the model
\* and weights files (the fit) or the combined artifact (line 150)
WritingFiles == pc \in {"write_dump", "fitting", "save"}

\* C14: in a fresh-extraction call the dump and the model/weights artifacts
\* are written strictly after the barrier: while a file is being written no
\* task is running or still queued, and as long as the barrier has not been
\* passed nothing has been written.
C14_FilesWrittenAfterBarrier ==
    "fresh" \in branch =>
        /\ WritingFiles =>
             /\ PastBarrier
             /\ \A i \in DOMAIN task : task[i].pc = "done"
        /\ ~PastBarrier =>
             /\ calls.dump_write = 0
             /\ calls.fit = 0
             /\ calls.save_model_and_weights = 0
             /\ combined = None

\* C14 witness: the dump is about to be written in a call whose two tasks
\* were run by a pool of two workers.
C14_Witness ==
    /\ pc = "write_dump"
    /\ "fresh" \in branch
    /\ Cardinality(DOMAIN task) = 2
    /\ max_workers = Some(2)
    /\ Succeeded # {}

\* The indices whose feature slot is filled
Filled == {i \in DOMAIN slots_data : slots_data[i] # None}

\* C15: once the barrier is passed, feature slot i is filled if and only if
\* label slot i is, for every index i; the slots that survive the filter are
\* equally many feature and label tensors, at most N of each; and the k-th
\* surviving feature tensor and the k-th surviving label tensor are those of
\* one and the same sample, the k-th of the filled indices.
C15_SlotsFilledInPairs ==
    PastBarrier =>
        /\ DOMAIN slots_data = DOMAIN slots_labels
        /\ \A i \in DOMAIN slots_data :
              slots_data[i] # None <=> slots_labels[i] # None
        /\ Len(NotNone(slots_data)) = Len(NotNone(slots_labels))
        /\ Len(NotNone(slots_data)) <= NumSamples
        /\ \A k \in 1..Len(NotNone(slots_data)) :
              /\ NotNone(slots_data)[k] = FeatureTensor(Ascending(Filled)[k])
              /\ NotNone(slots_labels)[k] = LabelTensor(Ascending(Filled)[k])

\* C15 witness: the barrier is passed with the first of two slots empty and
\* the second filled, so that the first survivor is the second sample.
C15_Witness ==
    /\ pc = "filter"
    /\ Len(slots_data) = 2
    /\ slots_data[1] = None
    /\ slots_labels[1] = None
    /\ slots_data[2] = Some(FeatureTensor(2))
    /\ slots_labels[2] = Some(LabelTensor(2))

\* The corpus as the coordinator returned it, before line 116
RawData == Concatenate(NotNone(slots_data))
RawLabels == Concatenate(NotNone(slots_labels))

\* How often the pair (f, l) occurs at one position of two aligned arrays
Occurrences(data, lbls, f, l) ==
    Cardinality({k \in DOMAIN data : data[k] = f /\ lbls[k] = l})

\* C16: the permutation step applies one and the same permutation of the M
\* indices to features and to labels: right after it, position k of either
\* array holds what position rand[k] held before, every (feature, label) pair
\* occurs as often as before, and every feature is at the position of the
\* label it had before.
C16_OnePermutationForBoth ==
    pc = "normalise" =>
        /\ rand # None
        /\ rand[1] \in PermutationsOf(Len(RawData))
        /\ Len(train_data) = Len(RawData) /\ Len(labels) = Len(RawLabels)
        /\ \A k \in DOMAIN train_data :
              /\ train_data[k] = RawData[rand[1][k]]
              /\ labels[k] = RawLabels[rand[1][k]]
        /\ \A k \in DOMAIN RawData :
              /\ Occurrences(train_data, labels, RawData[k], RawLabels[k])
                    = Occurrences(RawData, RawLabels, RawData[k], RawLabels[k])
        /\ \A k \in DOMAIN train_data :
              Occurrences(RawData, RawLabels, train_data[k], labels[k]) >= 1

\* C16 witness: a corpus of three pairs has been permuted and none of the
\* pairs is where it was.
C16_Witness ==
    /\ pc = "normalise"
    /\ Len(labels) = 3
    /\ \A k \in 1..3 : rand[1][k] # k

\* The records the coordinator logged for the future of index i
CoordRecords(i) == {k \in DOMAIN coordLog : coordLog[k].index = i}

HoldingException == {i \in DOMAIN task : task[i].future = "raised"}

\* C18: the set of futures that the barrier reports as not completed is empty
\* in every execution: once the barrier is passed every submitted task is
\* completed, the loop over the not-completed futures has had no iteration
\* (the coordinator has logged nothing), and no exception that a future holds
\* is raised or reported by the coordinator, so that an error raised inside a
\* task, in its failure handlers included, leaves no trace in the coordinator.
C18_NotDoneIsAlwaysEmpty ==
    /\ not_done \in {None, Some({})}
    /\ coordLog = <<>>
    /\ ~(pc = "raised" /\ error.type = "UnboundLocalError")
    /\ PastBarrier =>
         /\ not_done = Some({})
         /\ submitted = NumSamples
         /\ \A i \in DOMAIN task : task[i].future \in {"returned", "raised"}

\* C18 witness: the coordinator has returned a corpus from a call in which a
\* future holds the exception that a failure handler raised, and has logged
\* nothing.
C18_Witness ==
    /\ CoordinatorReturned
    /\ HoldingException # {}
    /\ \E i \in HoldingException : task[i].exc = "UnboundLocalError"
    /\ coordLog = <<>>

\* Task i has been taken by a worker and has not ended
RunningTask(i) == i \in DOMAIN task /\ task[i].pc \notin {"queued", "done"}

\* How far a task is
TaskRank(p) ==
    CASE p = "queued" -> 0
      [] p = "extract_audio" -> 1
      [] p = "extract_features" -> 2
      [] p = "write_data" -> 3
      [] p = "write_labels" -> 4
      [] OTHER -> 5

\* Every step submits at most the next index, and a task only moves on: it
\* is not taken by a worker before it is submitted, it never goes back to an
\* earlier position (no retry), and a future that is completed stays as it
\* is (no cancellation)
SubmittedOnceNeverRetried ==
    [][/\ submitted' \in {submitted, submitted + 1}
       /\ submitted' <= NumSamples
       /\ pc' \in {"wait", "filter", "write_dump"} => submitted' = NumSamples
       /\ \A i \in DOMAIN task :
             /\ task'[i].pc # "queued" => i <= submitted
             /\ TaskRank(task'[i].pc) >= TaskRank(task[i].pc)
             /\ task[i].future # "pending" => task'[i] = task[i]
             /\ task'[i].future \in {"pending", "returned", "raised"}]_vars

\* No task that a worker has taken runs for ever
EveryTaskTerminates == \A i \in 1..MaxN : []<>(~RunningTask(i))

\* C19: each sample's task is submitted exactly once and is never cancelled
\* or retried; if every task terminates then, under fair scheduling, a
\* coordinator that has created its pool (of at least one worker) eventually
\* passes the barrier and returns; and if some task never terminates the
\* coordinator never returns.
C19_CoordinatorReturnsIffTasksTerminate ==
    /\ SubmittedOnceNeverRetried
    /\ [](pc = "submit" => max_workers[1] >= 1)
    /\ EveryTaskTerminates => ((pc = "submit") ~> CoordinatorReturned)
    /\ \A i \in 1..MaxN : (<>[]RunningTask(i)) => [](~CoordinatorEnded)

\* The call resumes from a dump that records no sample, and has read it
ResumesFromEmptyDump ==
    /\ "dump" \in branch
    /\ dumpFile = EmptyDump
    /\ pc # "open_dump"

\* C20: a call on the resume-from-dump branch whose dump records 0 samples
\* never hands the empty corpus to the fit: train detects it, the call ends
\* with an error that is raised by train itself and not by the fit, and no
\* combined artifact is saved.
C20_EmptyDumpIsReported ==
    ResumesFromEmptyDump =>
        /\ calls.fit = 0
        /\ fitArgs = None
        /\ pc \notin {"fitting", "save", "returned"}
        /\ pc = "raised" => error.site # "fit"
        /\ calls.save_model_and_weights = 0
        /\ combined = None

====
